---- MODULE Spec2Model ----
(***************************************************************************)
(* Model of the ertflix-2-jellyfin adapter.                                *)
(*                                                                         *)
(*   Spec            the movies / TV-shows request pipeline                *)
(*                   (routes/handlers.rs, services/media_service.rs,       *)
(*                   api/ertflix_client.rs)                                *)
(*   SpecConvert     the Tile -> Movie / TVShow conversions                *)
(*                   (models/ertflix.rs)                                   *)
(*   SpecCollection  the synthesis of Jellyfin Collection objects          *)
(*                   (models/jellyfin.rs)                                  *)
(*   SpecParse       the X-Emby-Authorization header parser                *)
(*                   (api/jellyfin_server.rs)                              *)
(*                                                                         *)
(* Option<T> is modelled as a sequence of length at most one: None is <<>> *)
(* and Some(x) is <<x>>.  A JSON object field that is absent (or null) is  *)
(* None as well.  Strings the code only copies are TLA+ strings; strings   *)
(* the code takes apart or concatenates are sequences of characters.       *)
(***************************************************************************)
EXTENDS Integers, Sequences, FiniteSets, TLC

VARIABLES
    \* ---- request pipeline (Spec) ----
    pc,               \* "idle" | "section_await" | "tiles_await" | "page_await" | "done"
    kind,             \* "none" | "movies" | "tv" | "collections"
    calls,            \* upstream calls issued by the request, in order
    replies,          \* upstream outcomes received by the request, in order
    section_contents, \* Option: the decoded section list (local of get_movies / get_tv_shows)
    selected,         \* index into section_contents of the section chosen (0: none)
    ids,              \* Option: the tile ids handed to get_tiles
    result,           \* Option: the Result returned by MediaService::get_movies / get_tv_shows
    response,         \* Option: the HTTP response of the handler
    \* ---- conversions (SpecConvert) ----
    tile,             \* the Tile being converted
    movie,            \* Option: Movie::from(tile)
    show,             \* Option: TVShow::from(tile)
    \* ---- collection synthesis (SpecCollection) ----
    synth,            \* the Collections synthesised so far, with their inputs
    \* ---- header parser (SpecParse) ----
    hScheme,          \* whether the header starts with the scheme word "MediaBrowser "
    hPairs,           \* the key/value pairs of the header, in order
    header,           \* the header value, a sequence of characters
    parsed,           \* Option: the Result of EmbyAuthorizationHeader::from_str(header)
    \* ---- authentication (SpecAuth) ----
    supplied,         \* "absent" | "opaque" | "text": the x-emby-authorization header of the request
    authResponse,     \* Option: the HTTP response of handle_authentication
    issued,           \* history: the access tokens handed out so far
    \* ---- concurrent requests (SpecConcurrent) ----
    media_service,    \* the MediaService shared by all workers (web::Data)
    reqs              \* the requests in flight: the locals of each handler call

pipeVars == <<pc, kind, calls, replies, section_contents, selected, ids, result, response>>
convVars == <<tile, movie, show>>
collVars == <<synth>>
parseVars == <<hScheme, hPairs, header, parsed>>
authVars == <<supplied, authResponse, issued>>
concVars == <<media_service, reqs>>
vars == <<pipeVars, convVars, collVars, parseVars, authVars, concVars>>

----------------------------------------------------------------------------
(* Option and Result                                                       *)

None == <<>>
Some(x) == <<x>>
IsSome(o) == Len(o) = 1
Unwrap(o) == o[1]
UnwrapOr(o, d) == IF IsSome(o) THEN o[1] ELSE d

NoErr == [type |-> "none", msg |-> ""]
Ok(v) == [ok |-> TRUE, val |-> v, err |-> NoErr]
Err(e) == [ok |-> FALSE, val |-> <<>>, err |-> e]

\* Error::Request, Error::Parse, Error::Custom of api/ertflix_client.rs
RequestError == [type |-> "Request", msg |-> ""]
ParseError == [type |-> "Parse", msg |-> ""]
CustomError(m) == [type |-> "Custom", msg |-> m]

\* All sequences over S of length at most n.
RECURSIVE SeqsUpTo(_, _)
SeqsUpTo(S, n) ==
    IF n = 0 THEN {<<>>}
    ELSE LET shorter == SeqsUpTo(S, n - 1)
         IN shorter \cup {Append(s, x) : s \in {t \in shorter : Len(t) = n - 1}, x \in S}

----------------------------------------------------------------------------
(* Upstream wire data and its decoding (serde, api/ertflix_client.rs)      *)

\* #[serde(rename_all = "camelCase")] struct Tile: id, codename and
\* originEntityId are required, year / description / title are Option.
TileDecodes(raw) ==
    IsSome(raw.id) /\ IsSome(raw.codename) /\ IsSome(raw.originEntityId)

Tile(raw) ==
    [origin_entity_id |-> Unwrap(raw.originEntityId),
     codename |-> Unwrap(raw.codename),
     id |-> Unwrap(raw.id),
     year |-> raw.year,
     description |-> raw.description,
     title |-> raw.title]

\* struct SectionContents: sectionId is required, toplistCodename and
\* tilesIds are Option; every element of tilesIds must decode as a Tile.
SectionDecodes(raw) ==
    /\ IsSome(raw.sectionId)
    /\ IsSome(raw.tilesIds) =>
          \A i \in 1..Len(Unwrap(raw.tilesIds)) : TileDecodes(Unwrap(raw.tilesIds)[i])

SectionContents(raw) ==
    [toplist_codename |-> raw.toplistCodename,
     section_id |-> Unwrap(raw.sectionId),
     tiles_ids |-> IF IsSome(raw.tilesIds)
                   THEN Some([i \in 1..Len(Unwrap(raw.tilesIds)) |->
                                 Tile(Unwrap(raw.tilesIds)[i])])
                   ELSE None]

\* serde_json::from_str::<Vec<Tile>>: json is None when the body is not a
\* JSON array; the whole body is rejected when one element does not decode.
DecodeTiles(json) ==
    IF IsSome(json) /\ \A i \in 1..Len(Unwrap(json)) : TileDecodes(Unwrap(json)[i])
    THEN Ok([i \in 1..Len(Unwrap(json)) |-> Tile(Unwrap(json)[i])])
    ELSE Err(ParseError)

\* serde_json::from_str::<Vec<SectionContents>>
DecodeSections(json) ==
    IF IsSome(json) /\ \A i \in 1..Len(Unwrap(json)) : SectionDecodes(Unwrap(json)[i])
    THEN Ok([i \in 1..Len(Unwrap(json)) |-> SectionContents(Unwrap(json)[i])])
    ELSE Err(ParseError)

\* What one upstream call can come to: the send fails (connection failure
\* or the timeout of with_ertflix_headers), the body cannot be read, or a
\* body arrives with some HTTP status.
SendFailed(why) == [t |-> "send_err", why |-> why, status |-> 0, json |-> None]
TextFailed(st) == [t |-> "text_err", why |-> "", status |-> st, json |-> None]
Body(st, json) == [t |-> "body", why |-> "", status |-> st, json |-> json]

----------------------------------------------------------------------------
(* models/ertflix.rs                                                       *)

\* Variant: an absent year becomes 0 instead of the 1970 sentinel.
MovieFrom_YearZero(t) ==
    [id |-> t.id,
     title |-> UnwrapOr(t.title, ""),
     year |-> UnwrapOr(t.year, 0),
     genre |-> <<>>,
     description |-> UnwrapOr(t.description, "")]

\* impl From<ertflix_client::Tile> for Movie
MovieFrom(t) ==
    [id |-> t.id,
     title |-> UnwrapOr(t.title, ""),
     year |-> UnwrapOr(t.year, 1970),
     genre |-> <<>>,
     description |-> UnwrapOr(t.description, "")]

\* Variant: an absent title becomes the empty string, as for a Movie.
TVShowFrom_EmptyTitle(t) ==
    [id |-> t.id,
     title |-> UnwrapOr(t.title, ""),
     seasons |-> <<>>]

\* impl From<ertflix_client::Tile> for TVShow
TVShowFrom(t) ==
    [id |-> t.id,
     title |-> UnwrapOr(t.title, t.codename),
     seasons |-> <<>>]

----------------------------------------------------------------------------
(* api/ertflix_client.rs                                                   *)

MoviesSectionCodename == "oles-oi-tainies-1"
TvShowsSectionCodename == "ert-seires-plereis"

\* config::TIMEOUT_SECONDS
TIMEOUT_SECONDS == 30

\* Variant: the common headers are set, the timeout is not.
with_ertflix_headers_NoTimeout(request) ==
    [endpoint |-> request.endpoint, arg |-> request.arg, body |-> request.body,
     timeout |-> None]

\* ErtflixRequestBuilder::with_ertflix_headers: the common headers and
\* .timeout(Duration::from_secs(config::TIMEOUT_SECONDS))
with_ertflix_headers(request) ==
    [endpoint |-> request.endpoint, arg |-> request.arg, body |-> request.body,
     timeout |-> Some(TIMEOUT_SECONDS)]

\* Variant: a call that failed is issued once more before the error is
\* returned.
ReturnErr_Reissue(cs) == Append(cs, cs[Len(cs)])

\* return Err(..) in the match arms of a call that failed: the function
\* ends there, the calls issued stay as they are
ReturnErr(cs) == cs

SectionContentCall(codename) ==
    with_ertflix_headers([endpoint |-> "GetSectionContent", arg |-> Some(codename), body |-> None])

\* The GET of get_collections: the main page, first 100 sections
PageContentCall ==
    with_ertflix_headers([endpoint |-> "GetPageContent", arg |-> Some("mainpage"), body |-> None])

\* s without the repetitions of its elements, first occurrences kept
RECURSIVE Distinct(_)
Distinct(seq) ==
    IF seq = <<>> THEN <<>>
    ELSE <<Head(seq)>> \o Distinct(SelectSeq(Tail(seq), LAMBDA x : x # Head(seq)))

\* Variant: an id is requested once however often the section lists it.
GetTilesRequestBody_Distinct(tileIds) ==
    [platformCodename |-> "www",
     requestedTiles |-> [i \in 1..Len(Distinct(tileIds)) |-> [id |-> Distinct(tileIds)[i]]]]

\* struct GetTilesRequestBody as get_tiles fills it
GetTilesRequestBody(tileIds) ==
    [platformCodename |-> "www",
     requestedTiles |-> [i \in 1..Len(tileIds) |-> [id |-> tileIds[i]]]]

GetTilesCall(tileIds) ==
    with_ertflix_headers([endpoint |-> "GetTiles", arg |-> None,
                          body |-> Some(GetTilesRequestBody(tileIds))])

\* Variant: a response with a non-success status is an error.
get_section_content_ErrorForStatus(outcome) ==
    IF outcome.t = "send_err" THEN Err(RequestError)
    ELSE IF outcome.t = "text_err" THEN Err(RequestError)
    ELSE IF outcome.status # 200 THEN Err(RequestError)
    ELSE DecodeSections(outcome.json)

\* DefaultErtflixClient::get_section_content, from the upstream outcome on
get_section_content(outcome) ==
    IF outcome.t = "send_err" THEN Err(RequestError)
    ELSE IF outcome.t = "text_err" THEN Err(RequestError)
    ELSE DecodeSections(outcome.json)

\* The TileType::from binding of get_tiles::<TileType>
Convert(k, t) == IF k = "movies" THEN MovieFrom(t) ELSE TVShowFrom(t)

\* The converted tiles whose id is wanted, in the order of tiles
RECURSIVE WithId(_, _, _)
WithId(k, tiles, wanted) ==
    IF tiles = <<>> THEN <<>>
    ELSE (IF Head(tiles).id = wanted THEN <<Convert(k, Head(tiles))>> ELSE <<>>)
         \o WithId(k, Tail(tiles), wanted)

\* The converted tiles re-sorted to the order of the requested ids, the
\* tiles that were not requested last
RECURSIVE InRequestOrder(_, _, _)
InRequestOrder(k, tiles, tileIds) ==
    IF tileIds = <<>>
    THEN [i \in 1..Len(tiles) |-> Convert(k, tiles[i])]
    ELSE WithId(k, tiles, Head(tileIds))
         \o InRequestOrder(k, SelectSeq(tiles, LAMBDA t : t.id # Head(tileIds)), Tail(tileIds))

\* Variant: the tiles are returned in the order of the request.
get_tiles_RequestOrder(k, tileIds, outcome) ==
    IF outcome.t = "send_err" THEN Err(RequestError)
    ELSE IF outcome.t = "text_err" THEN Err(RequestError)
    ELSE LET tiles == DecodeTiles(outcome.json)
         IN IF tiles.ok
            THEN Ok(InRequestOrder(k, tiles.val, tileIds))
            ELSE Err(ParseError)

\* Variant: a tile whose id was not requested is left out.
get_tiles_OnlyRequested(k, tileIds, outcome) ==
    IF outcome.t = "send_err" THEN Err(RequestError)
    ELSE IF outcome.t = "text_err" THEN Err(RequestError)
    ELSE LET tiles == DecodeTiles(outcome.json)
             wanted == SelectSeq(tiles.val,
                           LAMBDA t : \E i \in 1..Len(tileIds) : tileIds[i] = t.id)
         IN IF tiles.ok
            THEN Ok([i \in 1..Len(wanted) |-> Convert(k, wanted[i])])
            ELSE Err(ParseError)

\* DefaultErtflixClient::get_tiles, from the upstream outcome on
get_tiles(k, tileIds, outcome) ==
    IF outcome.t = "send_err" THEN Err(RequestError)
    ELSE IF outcome.t = "text_err" THEN Err(RequestError)
    ELSE LET tiles == DecodeTiles(outcome.json)
         IN IF tiles.ok
            THEN Ok([i \in 1..Len(tiles.val) |-> Convert(k, tiles.val[i])])
            ELSE Err(ParseError)

\* get_movies between the section fetch and the tile-batch call: the
\* section taken (an index into section_contents) and the ids of its tiles.
Picked(idx, tileIds) == [idx |-> idx, ids |-> tileIds]

\* Variant: a section without a tile list is resolved as one that lists
\* no tile.
get_movies_pick_DefaultTiles(sections) ==
    IF Len(sections) = 0
    THEN Err(CustomError("No movie section found"))
    ELSE LET movie_section == sections[1]
             tiles == UnwrapOr(movie_section.tiles_ids, <<>>)
         IN Ok(Picked(1, [i \in 1..Len(tiles) |-> tiles[i].id]))

get_movies_pick(sections) ==
    IF Len(sections) = 0
    THEN Err(CustomError("No movie section found"))
    ELSE LET movie_section == sections[1]
         IN IF IsSome(movie_section.tiles_ids)
            THEN Ok(Picked(1, [i \in 1..Len(Unwrap(movie_section.tiles_ids)) |->
                                   Unwrap(movie_section.tiles_ids)[i].id]))
            ELSE Err(CustomError("No tiles found"))

\* get_tv_shows between the section fetch and the tile-batch call
get_tv_shows_pick(sections) ==
    IF Len(sections) = 0
    THEN Err(CustomError("No TV shows section found"))
    ELSE LET tv_section == sections[1]
         IN IF IsSome(tv_section.tiles_ids)
            THEN Ok(Picked(1, [i \in 1..Len(Unwrap(tv_section.tiles_ids)) |->
                                   Unwrap(tv_section.tiles_ids)[i].id]))
            ELSE Err(CustomError("No tiles found"))

Pick(k, sections) ==
    IF k = "movies" THEN get_movies_pick(sections) ELSE get_tv_shows_pick(sections)

SectionCodename(k) ==
    IF k = "movies" THEN MoviesSectionCodename ELSE TvShowsSectionCodename

----------------------------------------------------------------------------
(* routes/handlers.rs                                                      *)

\* MediaService::get_movies / get_tv_shows (services/media_service.rs):
\* the client's Result is matched and handed on, Ok as Ok and Err as Err.
media_service_get(res) == IF res.ok THEN Ok(res.val) ELSE Err(res.err)

\* HttpResponse::InternalServerError().finish()
EmptyBody == None

\* Variant: the success arm answers 200 without serialising the movies.
handle_get_movies_NoBody(res) ==
    IF res.ok THEN [status |-> 200, body |-> EmptyBody]
    ELSE [status |-> 500, body |-> EmptyBody]

\* handle_get_movies: 200 with the JSON list, or 500 with an empty body
handle_get_movies(res) ==
    IF res.ok THEN [status |-> 200, body |-> Some(res.val)]
    ELSE [status |-> 500, body |-> EmptyBody]

\* handle_get_tv_shows
handle_get_tv_shows(res) ==
    IF res.ok THEN [status |-> 200, body |-> Some(res.val)]
    ELSE [status |-> 500, body |-> EmptyBody]

Handle(k, res) ==
    IF k = "movies" THEN handle_get_movies(res) ELSE handle_get_tv_shows(res)


----------------------------------------------------------------------------
(* The upstream: what the three endpoints may answer                       *)

MaxSections == 2
MaxTiles == 2

HttpStatuses == {200, 503}
SendFailures == {"connect", "timeout"}

\* A tile reference as GetSectionContent lists it
RawTileRef(id, codename) ==
    [id |-> Some(id), codename |-> Some(codename), originEntityId |-> Some(10),
     title |-> None, year |-> None, description |-> None]

RawTilesIds ==
    {None,
     Some(<<>>),
     Some(<<RawTileRef("1", "movieA")>>),
     Some(<<RawTileRef("2", "showB"), RawTileRef("1", "movieA"), RawTileRef("1", "movieA")>>)}

\* The sections the section-content endpoint may list when asked for the
\* codename wanted: tagged with that codename or with another one, one
\* untagged, and one object without the required sectionId.
RawSections(wanted) ==
    {[toplistCodename |-> c, sectionId |-> Some(7), tilesIds |-> t] :
        c \in {Some(wanted), Some("ert-oles-oi-tainies")}, t \in RawTilesIds}
    \cup {[toplistCodename |-> None, sectionId |-> Some(7),
           tilesIds |-> Some(<<RawTileRef("1", "movieA")>>)]}
    \cup {[toplistCodename |-> Some(wanted), sectionId |-> None, tilesIds |-> None]}

\* The tiles the tile-batch endpoint may list: "1" with a title and a year,
\* "2" with and without them, and the last one without the required codename
\* and originEntityId.
RawTiles ==
    {[id |-> Some(t[1]), codename |-> Some(IF t[1] = "1" THEN "movieA" ELSE "showB"),
      originEntityId |-> Some(10), title |-> t[2], year |-> t[3], description |-> None] :
        t \in {<<"1", Some("Movie A"), Some(2020)>>, <<"2", Some("Movie A"), Some(2020)>>,
               <<"2", None, None>>}}
    \cup {[id |-> Some("1"), codename |-> None, originEntityId |-> None,
           title |-> Some("Movie A"), year |-> Some(2020), description |-> None]}

Outcomes(objects, maxLen) ==
    {SendFailed(w) : w \in SendFailures}
    \cup {TextFailed(200)}
    \cup {Body(st, None) : st \in HttpStatuses}
    \cup {Body(st, Some(l)) : st \in HttpStatuses, l \in SeqsUpTo(objects, maxLen)}

SectionOutcomes(k) == Outcomes(RawSections(SectionCodename(k)), MaxSections)
TilesOutcomes == Outcomes(RawTiles, MaxTiles)

----------------------------------------------------------------------------
(* The request pipeline: one inbound GET /movies or GET /tv at a time      *)

PipeInit ==
    /\ pc = "idle"
    /\ kind = "none"
    /\ calls = <<>>
    /\ replies = <<>>
    /\ section_contents = None
    /\ selected = 0
    /\ ids = None
    /\ result = None
    /\ response = None

\* GET /movies arrives: handle_get_movies -> MediaService::get_movies ->
\* get_movies runs up to the await of get_section_content's send().
ReceiveMovies ==
    /\ pc = "idle"
    /\ kind' = "movies"
    /\ calls' = <<SectionContentCall(MoviesSectionCodename)>>
    /\ pc' = "section_await"
    /\ UNCHANGED <<replies, section_contents, selected, ids, result, response>>

\* GET /tv arrives
ReceiveTvShows ==
    /\ pc = "idle"
    /\ kind' = "tv"
    /\ calls' = <<SectionContentCall(TvShowsSectionCodename)>>
    /\ pc' = "section_await"
    /\ UNCHANGED <<replies, section_contents, selected, ids, result, response>>

\* The request ends: the Result travels through MediaService to the handler.
Finish(res) ==
    /\ result' = Some(media_service_get(res))
    /\ response' = Some(Handle(kind, media_service_get(res)))
    /\ pc' = "done"

\* The section-content call completes; the request runs on to the await
\* of get_tiles' send(), or to its end.
SectionReply ==
    /\ pc = "section_await"
    /\ \E outcome \in SectionOutcomes(kind) :
          LET fetched == get_section_content(outcome)
              picked == Pick(kind, fetched.val)
          IN /\ replies' = Append(replies, outcome)
             /\ IF ~fetched.ok
                THEN /\ Finish(Err(fetched.err))
                     /\ calls' = ReturnErr(calls)
                     /\ UNCHANGED <<section_contents, selected, ids>>
                ELSE /\ section_contents' = Some(fetched.val)
                     /\ IF ~picked.ok
                        THEN /\ Finish(Err(picked.err))
                             /\ selected' = IF Len(fetched.val) = 0 THEN 0 ELSE 1
                             /\ UNCHANGED <<ids, calls>>
                        ELSE /\ selected' = picked.val.idx
                             /\ ids' = Some(picked.val.ids)
                             /\ calls' = Append(calls, GetTilesCall(picked.val.ids))
                             /\ pc' = "tiles_await"
                             /\ UNCHANGED <<result, response>>
    /\ UNCHANGED kind

\* The tile-batch call completes; the request runs to its end.
TilesReply ==
    /\ pc = "tiles_await"
    /\ \E outcome \in TilesOutcomes :
          LET res == get_tiles(kind, Unwrap(ids), outcome)
          IN /\ replies' = Append(replies, outcome)
             /\ calls' = IF res.ok THEN calls ELSE ReturnErr(calls)
             /\ Finish(res)
    /\ UNCHANGED <<kind, section_contents, selected, ids>>

\* The response is sent and the request's locals are dropped.
Respond ==
    /\ pc = "done"
    /\ pc' = "idle"
    /\ kind' = "none"
    /\ calls' = <<>>
    /\ replies' = <<>>
    /\ section_contents' = None
    /\ selected' = 0
    /\ ids' = None
    /\ result' = None
    /\ response' = None

----------------------------------------------------------------------------
(* The conversions on their own: one tile, converted either way            *)

TileDomain ==
    [origin_entity_id : {10},
     codename : {"movieA", "showB"},
     id : {"1", "2"},
     year : {None, Some(2020), Some(1970), Some(0)},
     description : {None, Some("D"), Some("")},
     title : {None, Some("Movie A"), Some("")}]

ConvertMovie ==
    /\ IsSome(tile)
    /\ movie = None
    /\ movie' = Some(MovieFrom(Unwrap(tile)))
    /\ UNCHANGED <<tile, show>>

ConvertTVShow ==
    /\ IsSome(tile)
    /\ show = None
    /\ show' = Some(TVShowFrom(Unwrap(tile)))
    /\ UNCHANGED <<tile, movie>>

----------------------------------------------------------------------------
(* models/jellyfin.rs: the Jellyfin Collection of an ERTFLIX collection    *)

ServerId == "optiplex-adapter"

Digits == <<"0", "1", "2", "3", "4", "5", "6", "7", "8", "9">>

RECURSIVE NatToString(_)
NatToString(n) ==
    IF n < 10 THEN <<Digits[n + 1]>>
    ELSE NatToString(n \div 10) \o <<Digits[(n % 10) + 1]>>

\* i32::to_string: the decimal digits, after a minus sign when negative
I32ToString(n) == IF n < 0 THEN <<"-">> \o NatToString(-n) ELSE NatToString(n)

\* Uuid::new_v5(namespace, name).to_string(): a name-based identifier.
\* SHA-1 is taken as collision-free, so the identifier is determined by,
\* and determines, the namespace and the name bytes.
UuidV5(namespace, bytes) == [version |-> 5, namespace |-> namespace, name |-> bytes]

\* Uuid::new_v4().to_string(): a random identifier, rnd being the draw
UuidV4(rnd) == [version |-> 4, namespace |-> "", name |-> <<rnd>>]

ZeroId == "00000000000000000000000000000000"

\* impl Default for UserData
UserDataDefault(rnd) ==
    [playback_position_ticks |-> 0,
     play_count |-> 0,
     is_favorite |-> FALSE,
     played |-> FALSE,
     key |-> UuidV4(rnd),
     item_id |-> ZeroId]

\* impl Default for ImageTags
ImageTagsDefault == [primary |-> ZeroId]

\* impl Default for ImageBlurHashes
ImageBlurHashesDefault == [primary |-> {<<"4183b69eb08fcd80b087bdf0cdd36c7c", "000">>}]

\* The fields of Collection::from that depend on neither its argument, the
\* clock nor a random draw
CollectionDefaults ==
    [server_id |-> ServerId, can_delete |-> TRUE, can_download |-> TRUE,
     sort_name |-> "movies", external_urls |-> <<>>, path |-> "",
     enable_media_source_display |-> FALSE, channel_id |-> None,
     taglines |-> <<>>, genres |-> <<>>, play_access |-> "Full",
     remote_trailers |-> <<>>, provider_ids |-> {}, is_folder |-> TRUE,
     parent_id |-> "", item_type |-> "CollectionFolder", people |-> <<>>,
     studios |-> <<>>, genre_items |-> <<>>, local_trailer_count |-> 0,
     child_count |-> 0, special_feature_count |-> 0,
     display_preferences_id |-> "", tags |-> <<>>,
     primary_image_aspect_ratio |-> 0, collection_type |-> "",
     image_tags |-> ImageTagsDefault, backdrop_image_tags |-> <<>>,
     image_blur_hashes |-> ImageBlurHashesDefault,
     location_type |-> "FileSystem", media_type |-> "Unknown",
     locked_fields |-> <<>>, lock_data |-> FALSE]

\* Variant: the etag is a random identifier drawn for each synthesis.
CollectionFrom_RandomEtag(c, now, rnd) ==
    [name |-> c.name,
     id |-> c.id,
     etag |-> UuidV4(rnd),
     date_created |-> now,
     user_data |-> UserDataDefault(rnd),
     defaults |-> CollectionDefaults]

\* Variant: the etag is derived from the id alone.
CollectionFrom_IdOnlyEtag(c, now, rnd) ==
    [name |-> c.name,
     id |-> c.id,
     etag |-> UuidV5("NAMESPACE_URL", c.id),
     date_created |-> now,
     user_data |-> UserDataDefault(rnd),
     defaults |-> CollectionDefaults]

\* Variant: the etag is taken of the id and the name with a separator
\* between them.
CollectionFrom_Separated(c, now, rnd) ==
    LET bytes == c.id \o <<"/">> \o c.name
    IN [name |-> c.name,
        id |-> c.id,
        etag |-> UuidV5("NAMESPACE_URL", bytes),
        date_created |-> now,
        user_data |-> UserDataDefault(rnd),
        defaults |-> CollectionDefaults]

\* Collection::from(ertflix_collection), now being chrono's Local::now()
\* and rnd the random draw of UserData::default()
CollectionFrom(c, now, rnd) ==
    LET bytes == c.id \o c.name
    IN [name |-> c.name,
        id |-> c.id,
        etag |-> UuidV5("NAMESPACE_URL", bytes),
        date_created |-> now,
        user_data |-> UserDataDefault(rnd),
        defaults |-> CollectionDefaults]

\* The closure of MediaService::get_collections: the ertflix::Collection of
\* a section that carries a toplist codename
ErtflixCollection(name, section_id) == [name |-> name, id |-> I32ToString(section_id)]

----------------------------------------------------------------------------
(* Collection synthesis on its own: Collections built one after another,   *)
(* in the same request or in a later one                                   *)

MaxSynth == 2

SectionIds == {1, 12}
ToplistNames == {<<"2", "3">>, <<"3">>, <<"m", "o", "v", "i", "e", "s">>}
Clock == {100, 101}
RandomDraws == {"r1", "r2"}

Synthesize ==
    /\ Len(synth) < MaxSynth
    /\ \E name \in ToplistNames, sid \in SectionIds, now \in Clock,
          rnd \in RandomDraws, sameRequest \in BOOLEAN :
          LET req == IF synth = <<>> THEN 1
                     ELSE IF sameRequest THEN synth[Len(synth)].req
                     ELSE synth[Len(synth)].req + 1
          IN synth' = Append(synth,
                 [req |-> req,
                  coll |-> CollectionFrom(ErtflixCollection(name, sid), now, rnd)])

----------------------------------------------------------------------------
(* The collections pipeline: GET /UserViews                                *)

\* serde_json::from_str::<ApiResponse>: json is None when the body is not
\* a JSON object with a sectionContents array, and holds that array
\* otherwise; every element must decode as SectionContents.
DecodeApiResponse(json) == DecodeSections(json)

\* Variant: the sections that list tiles are kept.
get_collections_WithTiles(outcome) ==
    IF outcome.t = "send_err" THEN Err(RequestError)
    ELSE IF outcome.t = "text_err" THEN Err(RequestError)
    ELSE LET top_level_response == DecodeApiResponse(outcome.json)
         IN IF top_level_response.ok
            THEN Ok(SelectSeq(top_level_response.val, LAMBDA sec : IsSome(sec.tiles_ids)))
            ELSE Err(ParseError)

\* Variant: a page without a tagged section is an error, as a section
\* list without a section is for movies.
get_collections_NoneIsError(outcome) ==
    IF outcome.t = "send_err" THEN Err(RequestError)
    ELSE IF outcome.t = "text_err" THEN Err(RequestError)
    ELSE LET top_level_response == DecodeApiResponse(outcome.json)
             tagged == SelectSeq(top_level_response.val,
                                 LAMBDA sec : IsSome(sec.toplist_codename))
         IN IF ~top_level_response.ok THEN Err(ParseError)
            ELSE IF tagged = <<>> THEN Err(CustomError("No collections found"))
            ELSE Ok(tagged)

\* DefaultErtflixClient::get_collections with the identity as
\* filtering_strategy, from the upstream outcome on
get_collections(outcome) ==
    IF outcome.t = "send_err" THEN Err(RequestError)
    ELSE IF outcome.t = "text_err" THEN Err(RequestError)
    ELSE LET top_level_response == DecodeApiResponse(outcome.json)
         IN IF top_level_response.ok
            THEN Ok(SelectSeq(top_level_response.val, LAMBDA sec : IsSome(sec.toplist_codename)))
            ELSE Err(ParseError)

\* MediaService::get_collections: each section becomes an
\* ertflix::Collection and that a jellyfin::Collection. now is the clock
\* of the request, seed the state of its random generator: the i-th
\* Collection draws <<seed, i>>.
media_service_get_collections(res, now, seed) ==
    IF res.ok
    THEN Ok([i \in 1..Len(res.val) |->
                CollectionFrom(
                    ErtflixCollection(UnwrapOr(res.val[i].toplist_codename, <<>>),
                                      res.val[i].section_id),
                    now, <<seed, i>>)])
    ELSE Err(res.err)

\* Variant: the record count is left at zero.
CollectionsNew_NoCount(items) ==
    [Items |-> items, TotalRecordCount |-> 0, StartIndex |-> 0]

\* jellyfin::Collections::new
CollectionsNew(items) ==
    [Items |-> items, TotalRecordCount |-> Len(items), StartIndex |-> 0]

\* handle_get_collections: 200 with the JSON envelope, or 500 with an
\* empty body
handle_get_collections(res) ==
    IF res.ok THEN [status |-> 200, body |-> Some(CollectionsNew(res.val))]
    ELSE [status |-> 500, body |-> EmptyBody]

\* The sections the page-content endpoint may list: with and without a
\* toplist codename, with no tile list, an empty one and one tile, and one
\* object without the required sectionId.
RawPageSections ==
    {[toplistCodename |-> c, sectionId |-> Some(sid), tilesIds |-> t] :
        c \in {None, Some(<<"3">>), Some(<<"m", "o", "v", "i", "e", "s">>)},
        sid \in SectionIds,
        t \in {None, Some(<<>>), Some(<<RawTileRef("1", "movieA")>>)}}
    \cup {[toplistCodename |-> Some(<<"3">>), sectionId |-> None, tilesIds |-> None]}

PageOutcomes == Outcomes(RawPageSections, MaxSections)

\* GET /UserViews arrives: handle_get_collections ->
\* MediaService::get_collections -> get_collections runs up to the await
\* of send().
ReceiveUserViews ==
    /\ pc = "idle"
    /\ kind' = "collections"
    /\ calls' = <<PageContentCall>>
    /\ pc' = "page_await"
    /\ UNCHANGED <<replies, section_contents, selected, ids, result, response>>

\* The page-content call completes; the request runs to its end.
PageReply ==
    /\ pc = "page_await"
    /\ \E outcome \in PageOutcomes, now \in Clock, seed \in RandomDraws :
          LET fetched == get_collections(outcome)
              res == media_service_get_collections(fetched, now, seed)
          IN /\ replies' = Append(replies, outcome)
             /\ calls' = IF fetched.ok THEN calls ELSE ReturnErr(calls)
             /\ result' = Some(res)
             /\ response' = Some(handle_get_collections(res))
             /\ pc' = "done"
    /\ UNCHANGED <<kind, section_contents, selected, ids>>

----------------------------------------------------------------------------
(* api/jellyfin_server.rs: impl FromStr for EmbyAuthorizationHeader        *)
(* Header values are sequences of characters.                              *)

\* The position of the first c in s, 0 when there is none
RECURSIVE IndexOf(_, _)
IndexOf(s, c) ==
    IF s = <<>> THEN 0
    ELSE IF Head(s) = c THEN 1
    ELSE LET i == IndexOf(Tail(s), c) IN IF i = 0 THEN 0 ELSE i + 1

\* str::split(c): the pieces between the occurrences of c, at least one
RECURSIVE Split(_, _)
Split(s, c) ==
    LET i == IndexOf(s, c)
    IN IF i = 0 THEN <<s>>
       ELSE <<SubSeq(s, 1, i - 1)>> \o Split(SubSeq(s, i + 1, Len(s)), c)

\* str::splitn(2, c): at most two pieces, cut at the first c
SplitN2(s, c) ==
    LET i == IndexOf(s, c)
    IN IF i = 0 THEN <<s>>
       ELSE <<SubSeq(s, 1, i - 1), SubSeq(s, i + 1, Len(s))>>

\* s without its leading and trailing characters of the set cs
RECURSIVE TrimStartOf(_, _)
TrimStartOf(s, cs) ==
    IF s # <<>> /\ Head(s) \in cs THEN TrimStartOf(Tail(s), cs) ELSE s

RECURSIVE TrimEndOf(_, _)
TrimEndOf(s, cs) ==
    IF s # <<>> /\ s[Len(s)] \in cs THEN TrimEndOf(SubSeq(s, 1, Len(s) - 1), cs) ELSE s

Whitespace == {" ", "\t", "\n", "\r"}

\* str::trim
Trim(s) == TrimEndOf(TrimStartOf(s, Whitespace), Whitespace)

\* str::trim_matches(c)
TrimMatches(s, c) == TrimEndOf(TrimStartOf(s, {c}), {c})

\* Iterator::next().unwrap_or("") on the pieces of splitn
NextOr(pieces, n) == IF n <= Len(pieces) THEN pieces[n] ELSE <<>>

KeyMediaBrowserVersion == <<"M", "e", "d", "i", "a", "B", "r", "o", "w", "s", "e", "r", " ", "V", "e", "r", "s", "i", "o", "n">>
KeyVersion == <<"V", "e", "r", "s", "i", "o", "n">>
KeyDevice == <<"D", "e", "v", "i", "c", "e">>
KeyDeviceId == <<"D", "e", "v", "i", "c", "e", "I", "d">>
KeyClient == <<"C", "l", "i", "e", "n", "t">>

\* Variant: the fields start from the defaults of SessionInfo::default()
\* instead of empty strings.
EmptyHeaderFields_SessionDefaults ==
    [version |-> <<"v", "0", ".", "0", ".", "1">>, device |-> <<"M", "a", "c">>, device_id |-> <<>>, client |-> <<"w", "e", "b">>]

\* String::new() for each of the four fields
EmptyHeaderFields == [version |-> <<>>, device |-> <<>>, device_id |-> <<>>, client |-> <<>>]

\* Variant: only the key spelled "Version" sets the version.
ParsePart_VersionOnly(fields, part) ==
    LET kv == SplitN2(Trim(part), "=")
        key == Trim(NextOr(kv, 1))
        value == TrimMatches(Trim(NextOr(kv, 2)), "\"")
    IN IF key = KeyVersion THEN [fields EXCEPT !.version = value]
       ELSE IF key = KeyDevice THEN [fields EXCEPT !.device = value]
       ELSE IF key = KeyDeviceId THEN [fields EXCEPT !.device_id = value]
       ELSE IF key = KeyClient THEN [fields EXCEPT !.client = value]
       ELSE fields

\* The body of the loop of from_str: one part of the comma-separated list
ParsePart(fields, part) ==
    LET kv == SplitN2(Trim(part), "=")
        key == Trim(NextOr(kv, 1))
        value == TrimMatches(Trim(NextOr(kv, 2)), "\"")
    IN IF key \in {KeyMediaBrowserVersion, KeyVersion} THEN [fields EXCEPT !.version = value]
       ELSE IF key = KeyDevice THEN [fields EXCEPT !.device = value]
       ELSE IF key = KeyDeviceId THEN [fields EXCEPT !.device_id = value]
       ELSE IF key = KeyClient THEN [fields EXCEPT !.client = value]
       ELSE fields

RECURSIVE ParseParts(_, _)
ParseParts(fields, parts) ==
    IF parts = <<>> THEN fields
    ELSE ParseParts(ParsePart(fields, Head(parts)), Tail(parts))

\* EmbyAuthorizationHeader::from_str
from_str(s) == Ok(ParseParts(EmptyHeaderFields, Split(s, ",")))

----------------------------------------------------------------------------
(* The parser on its own: one header value, parsed                         *)

MaxPairs == 4

SchemeWord == <<"M", "e", "d", "i", "a", "B", "r", "o", "w", "s", "e", "r", " ">>

HeaderPairs ==
    {[key |-> KeyClient, value |-> <<"I", "n", "f", "u", "s", "e">>],
     [key |-> KeyDevice, value |-> <<"A", "p", "p", "l", "e", "T", "V">>],
     [key |-> KeyDeviceId, value |-> <<"x", "y", "z">>],
     [key |-> KeyVersion, value |-> <<"1", ".", "0">>],
     [key |-> <<"T", "o", "k", "e", "n">>, value |-> <<"a", "b", "c">>]}

\* Sequences of pairwise different pairs
PairLists == {l \in SeqsUpTo(HeaderPairs, MaxPairs) :
                 \A i, j \in 1..Len(l) : i # j => l[i] # l[j]}

\* key="value"
RenderPair(p) == p.key \o <<"=", "\"">> \o p.value \o <<"\"">>

RECURSIVE RenderPairs(_)
RenderPairs(l) ==
    IF l = <<>> THEN <<>>
    ELSE IF Len(l) = 1 THEN RenderPair(l[1])
    ELSE RenderPair(l[1]) \o <<",", " ">> \o RenderPairs(Tail(l))

\* The header value a client sends: the scheme word, then the pairs
RenderHeader(scheme, l) == (IF scheme THEN SchemeWord ELSE <<>>) \o RenderPairs(l)

ParseHeader ==
    /\ parsed = None
    /\ parsed' = Some(from_str(header))
    /\ UNCHANGED <<hScheme, hPairs, header>>

----------------------------------------------------------------------------
(* POST /Users/AuthenticateByName (routes/handlers.rs, api/jellyfin_server.rs) *)

UserId == "optiplex-user"
Username == "antonis"

\* impl Default for User: the fields the response identifies the user by
UserDefault(uid, now) ==
    [name |-> "antonis", server_id |-> ServerId, id |-> UuidV4(uid),
     last_login_date |-> now, last_activity_date |-> now]

\* Variant: a field the header leaves empty keeps the value of
\* SessionInfo::default().
SessionInfoFrom_KeepDefaults(fields, sid, now) ==
    [id |-> UuidV4(sid), user_id |-> UserId, user_name |-> Username,
     client |-> IF fields.client = <<>> THEN <<"w", "e", "b">> ELSE fields.client,
     device_name |-> IF fields.device = <<>> THEN <<"M", "a", "c">> ELSE fields.device,
     device_id |-> fields.device_id,
     application_version |-> IF fields.version = <<>> THEN <<"v", "0", ".", "0", ".", "1">> ELSE fields.version,
     last_activity_date |-> now, last_playback_check_in |-> now,
     server_id |-> ServerId]

\* impl From<EmbyAuthorizationHeader> for SessionInfo, over SessionInfo::default()
SessionInfoFrom(fields, sid, now) ==
    [id |-> UuidV4(sid), user_id |-> UserId, user_name |-> Username,
     client |-> fields.client, device_name |-> fields.device,
     device_id |-> fields.device_id, application_version |-> fields.version,
     last_activity_date |-> now, last_playback_check_in |-> now,
     server_id |-> ServerId]

\* AuthenticationResponse::default(header)
AuthenticationResponseDefault(fields, tok, sid, uid, now) ==
    [user |-> UserDefault(uid, now), server_id |-> ServerId,
     access_token |-> UuidV4(tok), session_info |-> SessionInfoFrom(fields, sid, now)]

InvalidHeaderMessage == "Invalid X-Emby-Authentication header"

\* The header value handed to the parser: headers().get(..) is None when
\* the header is absent, to_str() fails on bytes that are not visible
\* ASCII, and both become the empty string
emby_auth_header(sup, text) == IF sup = "text" THEN text ELSE <<>>

\* EmbyAuthorizationHeader::from_str(emby_auth_header)
AuthParse(sup, text) == from_str(emby_auth_header(sup, text))

\* handle_authentication
handle_authentication ==
    /\ authResponse = None
    /\ \E tok \in RandomDraws, sid \in RandomDraws, uid \in RandomDraws, now \in Clock :
          LET res == AuthParse(supplied, header)
          IN /\ authResponse' = Some(
                   IF res.ok
                   THEN [status |-> 200,
                         body |-> Some(AuthenticationResponseDefault(res.val, tok, sid, uid, now))]
                   ELSE [status |-> 400, body |-> Some(InvalidHeaderMessage)])
             /\ issued' = IF res.ok THEN issued \cup {UuidV4(tok)} ELSE issued
    /\ UNCHANGED <<supplied, hScheme, hPairs, header, parsed>>

\* The response is sent; the client may authenticate again with the same
\* header
AuthRespond ==
    /\ authResponse # None
    /\ authResponse' = None
    /\ UNCHANGED <<supplied, issued, hScheme, hPairs, header, parsed>>

----------------------------------------------------------------------------
(* Requests handled concurrently on the one shared MediaService            *)
(* (main.rs, services/media_service.rs)                                    *)

MaxRequests == 2
Requests == 1..MaxRequests

ERTFLIX_API_URL == "https://api.ertflix.gr"

\* MediaService::new(config::ERTFLIX_API_URL): its one field, the client
MediaServiceNew == [client |-> [base_url |-> ERTFLIX_API_URL]]

\* Variant: the service keeps the first Result of each kind of request
\* and answers later requests of that kind with it.
service_call_Cached(service, k, res) ==
    IF "cache" \in DOMAIN service /\ k \in DOMAIN service.cache
    THEN [service |-> service, res |-> service.cache[k]]
    ELSE [service |-> [client |-> service.client,
                       cache |-> IF "cache" \in DOMAIN service
                                 THEN (k :> res) @@ service.cache
                                 ELSE (k :> res)],
          res |-> res]

\* A method of MediaService called on the shared &self, res being the
\* Result of the request's own upstream calls: the Result is returned and
\* no field of self is written
service_call(service, k, res) == [service |-> service, res |-> res]

\* Variant: after a call that failed the request waits to try again.
AfterCall_Backoff(res, next) == IF res.ok THEN next ELSE "backoff"

\* Where a request stands when a call has returned: at next when the
\* call gave Ok, at its end when it gave Err (`?` and the Err arms)
AfterCall(res, next) == IF res.ok THEN next ELSE "done"

\* The locals of a handler call that has not started
IdleRequest ==
    [pc |-> "idle", kind |-> "none", calls |-> <<>>, replies |-> <<>>,
     ids |-> None, draws |-> None, response |-> None]

\* What the upstream answers while requests run side by side: a few of
\* the outcomes of each endpoint
ConcSectionOutcomes(k) ==
    {SendFailed("timeout"),
     Body(200, Some(<<>>)),
     Body(200, Some(<<[toplistCodename |-> Some(SectionCodename(k)), sectionId |-> Some(7),
                       tilesIds |-> Some(<<RawTileRef("1", "movieA")>>)]>>))}

ConcTilesOutcomes ==
    {SendFailed("connect"),
     Body(200, Some(<<>>)),
     Body(200, Some(<<[id |-> Some("1"), codename |-> Some("movieA"),
                       originEntityId |-> Some(10), title |-> Some("Movie A"),
                       year |-> Some(2020), description |-> None]>>))}

ConcPageOutcomes ==
    {Body(200, None),
     Body(200, Some(<<[toplistCodename |-> Some(<<"3">>), sectionId |-> Some(1),
                       tilesIds |-> None]>>))}

ConcInit ==
    /\ media_service = MediaServiceNew
    /\ reqs = [r \in Requests |-> IdleRequest]

\* A request arrives at a worker: its handler runs up to the first await
ConcReceive ==
    \E r \in Requests, k \in {"movies", "tv", "collections"} :
        /\ reqs[r].pc = "idle"
        /\ reqs' = [reqs EXCEPT ![r] =
              [IdleRequest EXCEPT
                 !.kind = k,
                 !.pc = IF k = "collections" THEN "page_await" ELSE "section_await",
                 !.calls = IF k = "collections" THEN <<PageContentCall>>
                           ELSE <<SectionContentCall(SectionCodename(k))>>]]
        /\ UNCHANGED media_service

\* The section-content call of a request completes
ConcSectionReplyOf(r) ==
        /\ reqs[r].pc = "section_await"
        /\ \E outcome \in ConcSectionOutcomes(reqs[r].kind) :
              LET k == reqs[r].kind
                  fetched == get_section_content(outcome)
                  picked == Pick(k, fetched.val)
                  err == IF ~fetched.ok THEN Err(fetched.err) ELSE Err(picked.err)
                  out == service_call(media_service, k, media_service_get(err))
              IN IF fetched.ok /\ picked.ok
                 THEN /\ reqs' = [reqs EXCEPT ![r] =
                            [@ EXCEPT !.replies = Append(@, outcome),
                                      !.ids = Some(picked.val.ids),
                                      !.calls = Append(@, GetTilesCall(picked.val.ids)),
                                      !.pc = "tiles_await"]]
                      /\ UNCHANGED media_service
                 ELSE /\ reqs' = [reqs EXCEPT ![r] =
                            [@ EXCEPT !.replies = Append(@, outcome),
                                      !.calls = IF fetched.ok THEN @ ELSE ReturnErr(@),
                                      !.response = Some(Handle(k, out.res)),
                                      !.pc = IF fetched.ok THEN "done"
                                             ELSE AfterCall(fetched, "tiles_await")]]
                      /\ media_service' = out.service

\* The section-content call of some request completes
ConcSectionReply == \E r \in Requests : ConcSectionReplyOf(r)

\* The tile-batch call of a request completes
ConcTilesReplyOf(r) ==
        /\ reqs[r].pc = "tiles_await"
        /\ \E outcome \in ConcTilesOutcomes :
              LET k == reqs[r].kind
                  res == get_tiles(k, Unwrap(reqs[r].ids), outcome)
                  out == service_call(media_service, k, media_service_get(res))
              IN /\ reqs' = [reqs EXCEPT ![r] =
                        [@ EXCEPT !.replies = Append(@, outcome),
                                  !.calls = IF res.ok THEN @ ELSE ReturnErr(@),
                                  !.response = Some(Handle(k, out.res)),
                                  !.pc = AfterCall(res, "done")]]
                 /\ media_service' = out.service

\* The tile-batch call of some request completes
ConcTilesReply == \E r \in Requests : ConcTilesReplyOf(r)

\* The page-content call of a request completes
ConcPageReplyOf(r) ==
        /\ reqs[r].pc = "page_await"
        /\ \E outcome \in ConcPageOutcomes, now \in Clock, seed \in RandomDraws :
              LET fetched == get_collections(outcome)
                  res == media_service_get_collections(fetched, now, seed)
                  out == service_call(media_service, "collections", res)
              IN /\ reqs' = [reqs EXCEPT ![r] =
                        [@ EXCEPT !.replies = Append(@, outcome),
                                  !.calls = IF fetched.ok THEN @ ELSE ReturnErr(@),
                                  !.draws = Some([now |-> now, seed |-> seed]),
                                  !.response = Some(handle_get_collections(out.res)),
                                  !.pc = AfterCall(fetched, "done")]]
                 /\ media_service' = out.service

\* The page-content call of some request completes
ConcPageReply == \E r \in Requests : ConcPageReplyOf(r)

\* impl Default for SystemInfo
SystemInfoDefault ==
    [local_address |-> "http://localhost:25860", server_name |-> "Ertflix Adapter",
     version |-> "10.8.0", product_name |-> "Jellyfin Server",
     operating_system |-> "Linux", id |-> ServerId,
     startup_wizard_completed |-> TRUE]

\* Variant: the probe answers 500 while a request in flight has failed.
handle_get_system_info_Probing ==
    IF \E r \in Requests :
          reqs[r].response # None /\ Unwrap(reqs[r].response).status = 500
    THEN [status |-> 500, body |-> EmptyBody]
    ELSE [status |-> 200, body |-> Some(SystemInfoDefault)]

\* handle_get_system_info: 200 with SystemInfo::default()
handle_get_system_info == [status |-> 200, body |-> Some(SystemInfoDefault)]

\* GET /System/Info/Public arrives: the handler has no await and takes
\* no MediaService, it runs to its end
ConcSystemInfo ==
    \E r \in Requests :
        /\ reqs[r].pc = "idle"
        /\ reqs' = [reqs EXCEPT ![r] =
              [IdleRequest EXCEPT !.kind = "system_info",
                                  !.response = Some(handle_get_system_info),
                                  !.pc = "done"]]
        /\ UNCHANGED media_service

\* The response of a request is sent and its locals are dropped
ConcRespond ==
    \E r \in Requests :
        /\ reqs[r].pc = "done"
        /\ reqs' = [reqs EXCEPT ![r] = IdleRequest]
        /\ UNCHANGED media_service

ConvInit == tile = None /\ movie = None /\ show = None
CollInit == synth = <<>>
ParseInit == hScheme = FALSE /\ hPairs = <<>> /\ header = <<>> /\ parsed = None
AuthInit == supplied = "absent" /\ authResponse = None /\ issued = {}

Init == PipeInit /\ ConvInit /\ CollInit /\ ParseInit /\ AuthInit /\ ConcInit

Next ==
    \/ ReceiveMovies /\ UNCHANGED <<convVars, collVars, parseVars, authVars, concVars>>
    \/ ReceiveTvShows /\ UNCHANGED <<convVars, collVars, parseVars, authVars, concVars>>
    \/ SectionReply /\ UNCHANGED <<convVars, collVars, parseVars, authVars, concVars>>
    \/ TilesReply /\ UNCHANGED <<convVars, collVars, parseVars, authVars, concVars>>
    \/ ReceiveUserViews /\ UNCHANGED <<convVars, collVars, parseVars, authVars, concVars>>
    \/ PageReply /\ UNCHANGED <<convVars, collVars, parseVars, authVars, concVars>>
    \/ Respond /\ UNCHANGED <<convVars, collVars, parseVars, authVars, concVars>>

Spec == Init /\ [][Next]_vars

InitConvert ==
    /\ PipeInit /\ CollInit /\ ParseInit /\ AuthInit /\ ConcInit
    /\ tile \in {Some(t) : t \in TileDomain}
    /\ movie = None
    /\ show = None

NextConvert ==
    \/ ConvertMovie /\ UNCHANGED <<pipeVars, collVars, parseVars, authVars, concVars>>
    \/ ConvertTVShow /\ UNCHANGED <<pipeVars, collVars, parseVars, authVars, concVars>>

SpecConvert == InitConvert /\ [][NextConvert]_vars

NextCollection == Synthesize /\ UNCHANGED <<pipeVars, convVars, parseVars, authVars, concVars>>

SpecCollection == Init /\ [][NextCollection]_vars

InitParse ==
    /\ PipeInit /\ ConvInit /\ CollInit /\ AuthInit /\ ConcInit
    /\ hScheme \in BOOLEAN
    /\ hPairs \in PairLists
    /\ header = RenderHeader(hScheme, hPairs)
    /\ parsed = None

NextParse == ParseHeader /\ UNCHANGED <<pipeVars, convVars, collVars, authVars, concVars>>

SpecParse == InitParse /\ [][NextParse]_vars

InitAuth ==
    /\ PipeInit /\ ConvInit /\ CollInit /\ ConcInit
    /\ supplied \in {"absent", "opaque", "text"}
    /\ hScheme \in (IF supplied = "text" THEN BOOLEAN ELSE {FALSE})
    /\ hPairs \in (IF supplied = "text" THEN PairLists ELSE {<<>>})
    /\ header = RenderHeader(hScheme, hPairs)
    /\ parsed = None
    /\ authResponse = None
    /\ issued = {}

NextAuth ==
    \/ handle_authentication /\ UNCHANGED <<pipeVars, convVars, collVars, concVars>>
    \/ AuthRespond /\ UNCHANGED <<pipeVars, convVars, collVars, concVars>>

SpecAuth == InitAuth /\ [][NextAuth]_vars

NextConcurrent ==
    \/ ConcReceive /\ UNCHANGED <<pipeVars, convVars, collVars, parseVars, authVars>>
    \/ ConcSectionReply /\ UNCHANGED <<pipeVars, convVars, collVars, parseVars, authVars>>
    \/ ConcTilesReply /\ UNCHANGED <<pipeVars, convVars, collVars, parseVars, authVars>>
    \/ ConcPageReply /\ UNCHANGED <<pipeVars, convVars, collVars, parseVars, authVars>>
    \/ ConcSystemInfo /\ UNCHANGED <<pipeVars, convVars, collVars, parseVars, authVars>>
    \/ ConcRespond /\ UNCHANGED <<pipeVars, convVars, collVars, parseVars, authVars>>

SpecConcurrent == Init /\ [][NextConcurrent]_vars

\* The upstream call a request waits for returns or times out
ConcUpstream(r) ==
    /\ ConcSectionReplyOf(r) \/ ConcTilesReplyOf(r) \/ ConcPageReplyOf(r)
    /\ UNCHANGED <<pipeVars, convVars, collVars, parseVars, authVars>>

\* Concurrent requests whose upstream calls all end: the timeout of
\* with_ertflix_headers bounds the wait of each
SpecConcurrentLive ==
    SpecConcurrent /\ \A r \in Requests : WF_vars(ConcUpstream(r))


----------------------------------------------------------------------------
(* Claims on the movies / TV-shows pipeline (Spec)                         *)

\* The index of the last section tagged with the wanted codename, 0 if none
LastMatch(sections, wanted) ==
    LET matching == {i \in 1..Len(sections) : sections[i].toplist_codename = Some(wanted)}
    IN IF matching = {} THEN 0 ELSE CHOOSE i \in matching : \A j \in matching : j <= i

SectionNotFound(k) ==
    CustomError(IF k = "movies" THEN "No movie section found" ELSE "No TV shows section found")
EmptySection == CustomError("No tiles found")

TilesCallIssued == \E i \in 1..Len(calls) : calls[i].endpoint = "GetTiles"

\* C1: whenever the tile-batch call has been issued and some fetched
\* section is tagged with the wanted codename, the section whose tiles the
\* call resolves is the last of the sections so tagged.
C1_LastMatchingSectionSelected ==
    (TilesCallIssued
        /\ LastMatch(Unwrap(section_contents), SectionCodename(kind)) # 0)
    => selected = LastMatch(Unwrap(section_contents), SectionCodename(kind))

\* C2: when the fetched sections are empty or none of them is tagged with
\* the wanted codename, the request has failed with SectionNotFound, no
\* section was taken and no tile-batch call was issued.
C2_NoMatchIsSectionNotFound ==
    (IsSome(section_contents)
        /\ LastMatch(Unwrap(section_contents), SectionCodename(kind)) = 0)
    => /\ selected = 0
       /\ ~TilesCallIssued
       /\ result = Some(Err(SectionNotFound(kind)))

\* C3: when the tile list of the section taken is absent or empty, the
\* request has failed with EmptySection and no tile-batch call was issued.
C3_NoTilesIsEmptySection ==
    (selected # 0
        /\ Unwrap(section_contents)[selected].tiles_ids \in {None, Some(<<>>)})
    => /\ ~TilesCallIssued
       /\ result = Some(Err(EmptySection))
       /\ response = Some([status |-> 500, body |-> EmptyBody])

\* The ids of the objects of a sequence, in order
IdsOf(objs) == [i \in 1..Len(objs) |-> objs[i].id]
RawIdsOf(raws) == [i \in 1..Len(raws) |-> Unwrap(raws[i].id)]

\* C4: a successful tile resolution returns one object per tile of the
\* upstream batch response, in the order of that response.
C4_UpstreamOrderPreserved ==
    (pc = "done" /\ Len(replies) = 2 /\ Unwrap(result).ok)
    => IdsOf(Unwrap(result).val) = RawIdsOf(Unwrap(replies[2].json))

\* C4 witness: ids requested as <<"2", "1", "1">>, answered and returned as <<"1", "2">>
C4_Witness ==
    /\ pc = "done" /\ Len(replies) = 2 /\ Unwrap(result).ok
    /\ ids = Some(<<"2", "1", "1">>)
    /\ RawIdsOf(Unwrap(replies[2].json)) = <<"1", "2">>
    /\ IdsOf(Unwrap(result).val) = <<"1", "2">>

----------------------------------------------------------------------------
(* Claims on the conversions (SpecConvert)                                 *)

\* C5: the Movie of a tile keeps the tile's id, takes title, year and
\* description verbatim when present and "", 1970 and "" when absent, and
\* has no genre.
C5_MovieConversion ==
    IsSome(movie) =>
        LET m == Unwrap(movie)
            t == Unwrap(tile)
        IN /\ m.id = t.id
           /\ m.title = (IF t.title = None THEN "" ELSE t.title[1])
           /\ m.year = (IF t.year = None THEN 1970 ELSE t.year[1])
           /\ m.description = (IF t.description = None THEN "" ELSE t.description[1])
           /\ m.genre = <<>>

\* C5 witness: a tile without title and year, converted to a Movie
C5_Witness ==
    /\ IsSome(movie)
    /\ Unwrap(tile).title = None /\ Unwrap(tile).year = None
    /\ Unwrap(movie).title = "" /\ Unwrap(movie).year = 1970

\* C6: the TVShow of a tile keeps the tile's id, takes the title verbatim
\* when present and the tile's codename when absent, and has no seasons.
C6_TVShowConversion ==
    IsSome(show) =>
        LET s == Unwrap(show)
            t == Unwrap(tile)
        IN /\ s.id = t.id
           /\ s.title = (IF t.title = None THEN t.codename ELSE t.title[1])
           /\ s.seasons = <<>>

\* C6 witness: a tile without title, converted to a TVShow named by codename
C6_Witness ==
    /\ IsSome(show)
    /\ Unwrap(tile).title = None
    /\ Unwrap(show).title = Unwrap(tile).codename

----------------------------------------------------------------------------
(* Claims on Collection synthesis (SpecCollection)                         *)

\* C7: any two Collections synthesised from the same id and name, in the
\* same request or in different ones, carry the same etag.
C7_EtagDeterminedByIdAndName ==
    \A i, j \in 1..Len(synth) :
        (synth[i].coll.id = synth[j].coll.id /\ synth[i].coll.name = synth[j].coll.name)
        => synth[i].coll.etag = synth[j].coll.etag

\* C7 witness: the same id and name synthesised in two requests, at
\* different times and with different random draws, with one etag
C7_Witness ==
    \E i, j \in 1..Len(synth) :
        /\ synth[i].req # synth[j].req
        /\ synth[i].coll.id = synth[j].coll.id
        /\ synth[i].coll.name = synth[j].coll.name
        /\ synth[i].coll.date_created # synth[j].coll.date_created
        /\ synth[i].coll.user_data.key # synth[j].coll.user_data.key
        /\ synth[i].coll.etag = synth[j].coll.etag

\* C8: two Collections with the same id and different names carry
\* different etags.
C8_EtagChangesWithName ==
    \A i, j \in 1..Len(synth) :
        (synth[i].coll.id = synth[j].coll.id /\ synth[i].coll.name # synth[j].coll.name)
        => synth[i].coll.etag # synth[j].coll.etag

\* C8 witness: one id synthesised under two names, with two etags
C8_Witness ==
    \E i, j \in 1..Len(synth) :
        /\ synth[i].coll.id = synth[j].coll.id
        /\ synth[i].coll.name # synth[j].coll.name
        /\ synth[i].coll.etag # synth[j].coll.etag

----------------------------------------------------------------------------
(* End to end (Spec)                                                       *)

\* The canned catalog: one section tagged "ert-oles-oi-tainies" whose tile
\* list is the single reference {id "1", codename "movieA"}
IsCannedCatalog(reply) ==
    /\ reply.t = "body"
    /\ IsSome(reply.json)
    /\ Len(Unwrap(reply.json)) = 1
    /\ LET s == Unwrap(reply.json)[1]
       IN /\ s.toplistCodename = Some("ert-oles-oi-tainies")
          /\ IsSome(s.sectionId)
          /\ IsSome(s.tilesIds)
          /\ Len(Unwrap(s.tilesIds)) = 1
          /\ Unwrap(s.tilesIds)[1].id = Some("1")
          /\ Unwrap(s.tilesIds)[1].codename = Some("movieA")

\* The canned tile batch: the single tile {id "1", title "Movie A", year
\* 2020}, without description, whatever its codename and originEntityId
IsCannedTileBatch(reply) ==
    /\ reply.t = "body"
    /\ IsSome(reply.json)
    /\ Len(Unwrap(reply.json)) = 1
    /\ LET t == Unwrap(reply.json)[1]
       IN /\ t.id = Some("1")
          /\ t.title = Some("Movie A")
          /\ t.year = Some(2020)
          /\ t.description = None
          /\ IsSome(t.codename)
          /\ IsSome(t.originEntityId)

----------------------------------------------------------------------------
(* Claims on the header parser (SpecParse)                                 *)

\* The field of the parsed header that a recognised key names
FieldOf(fields, key) ==
    IF key = KeyClient THEN fields.client
    ELSE IF key = KeyDevice THEN fields.device
    ELSE IF key = KeyDeviceId THEN fields.device_id
    ELSE fields.version

RecognisedKeys == {KeyClient, KeyDevice, KeyDeviceId, KeyVersion}

\* MediaBrowser Client="Infuse", Device="AppleTV", DeviceId="xyz", Version="1.0"
ExampleHeader == <<"M", "e", "d", "i", "a", "B", "r", "o", "w", "s", "e", "r", " ", "C", "l", "i", "e", "n", "t", "=", "\"", "I", "n", "f", "u", "s", "e", "\"", ",", " ", "D", "e", "v", "i", "c", "e", "=", "\"", "A", "p", "p", "l", "e", "T", "V", "\"", ",", " ", "D", "e", "v", "i", "c", "e", "I", "d", "=", "\"", "x", "y", "z", "\"", ",", " ", "V", "e", "r", "s", "i", "o", "n", "=", "\"", "1", ".", "0", "\"">>

\* C10: the example header parses to client "Infuse", device "AppleTV",
\* deviceId "xyz" and version "1.0"; and for every header, each pair with a
\* recognised key sets its field to the pair's value, whatever the pair's
\* position, the first pair after the scheme word included.
C10_EveryRecognisedPairExtracted ==
    IsSome(parsed) =>
        /\ Unwrap(parsed).ok
        /\ header = ExampleHeader =>
              Unwrap(parsed).val = [version |-> <<"1", ".", "0">>, device |-> <<"A", "p", "p", "l", "e", "T", "V">>,
                                    device_id |-> <<"x", "y", "z">>, client |-> <<"I", "n", "f", "u", "s", "e">>]
        /\ \A i \in 1..Len(hPairs) :
              hPairs[i].key \in RecognisedKeys
              => FieldOf(Unwrap(parsed).val, hPairs[i].key) = hPairs[i].value

\* The keys of the pairs of the header received
KeysOf(pairs) == {pairs[i].key : i \in 1..Len(pairs)}

\* The values the header gives for a key
ValuesOf(pairs, key) == {pairs[i].value : i \in {j \in 1..Len(pairs) : pairs[j].key = key}}

\* C11: the parser returns Ok for every header value, the empty one and
\* those without "=" included; each field is the empty string or a value
\* the header pairs with the field's key, so a key that does not occur
\* leaves its field empty and no pair with another key changes a field.
C11_MissingAndUnknownKeysTolerated ==
    IsSome(parsed) =>
        /\ Unwrap(parsed).ok
        /\ \A key \in RecognisedKeys :
              FieldOf(Unwrap(parsed).val, key) \in {<<>>} \cup ValuesOf(hPairs, key)

\* C11 witness: a header with an unrecognised key and without Client and
\* Version, parsed to the fields of the keys it has
C11_Witness ==
    /\ IsSome(parsed)
    /\ <<"T", "o", "k", "e", "n">> \in KeysOf(hPairs)
    /\ KeyDevice \in KeysOf(hPairs)
    /\ KeyClient \notin KeysOf(hPairs)
    /\ KeyVersion \notin KeysOf(hPairs)
    /\ Unwrap(parsed).val.client = <<>>
    /\ Unwrap(parsed).val.version = <<>>
    /\ Unwrap(parsed).val.device = <<"A", "p", "p", "l", "e", "T", "V">>

\* C14: a Version pair sets the version whether it stands first, behind
\* the scheme word, where its key reads "MediaBrowser Version", or later,
\* where its key reads "Version".
C14_BothVersionSpellings ==
    IsSome(parsed) =>
        \A i \in 1..Len(hPairs) :
            hPairs[i].key = KeyVersion => Unwrap(parsed).val.version = hPairs[i].value

\* C14 witness: a header that starts MediaBrowser Version="1.0", parsed
C14_Witness ==
    /\ IsSome(parsed)
    /\ hScheme
    /\ Len(hPairs) > 1
    /\ hPairs[1].key = KeyVersion
    /\ SubSeq(header, 1, Len(KeyMediaBrowserVersion)) = KeyMediaBrowserVersion
    /\ Unwrap(parsed).val.version = <<"1", ".", "0">>

----------------------------------------------------------------------------
(* Claims on authentication (SpecAuth)                                     *)

\* C12: the answer to POST /Users/AuthenticateByName is 400 with the
\* plain-text message when the client-identification header is absent or
\* cannot be read, and is 200 only when a header was supplied.
C12_MissingHeaderIsBadRequest ==
    IsSome(authResponse) =>
        /\ supplied # "text" =>
              Unwrap(authResponse) = [status |-> 400, body |-> Some(InvalidHeaderMessage)]
        /\ Unwrap(authResponse).status = 200 => supplied = "text"

----------------------------------------------------------------------------
(* Claims on the three pipelines together (Spec)                           *)

\* The calls of the request to one endpoint
CallsTo(endpoint) == {i \in 1..Len(calls) : calls[i].endpoint = endpoint}

\* The reply is no decodable body: the send or the read failed, or the
\* body does not decode as what the call expects
ReplyFailed(i) ==
    \/ replies[i].t # "body"
    \/ IF calls[i].endpoint = "GetTiles"
       THEN ~DecodeTiles(replies[i].json).ok
       ELSE ~DecodeSections(replies[i].json).ok

\* A step of the pipeline failed: a call failed, the section fetch listed
\* no section, or the section taken lists no tile
StepFailed ==
    \/ \E i \in 1..Len(replies) : ReplyFailed(i)
    \/ /\ kind \in {"movies", "tv"}
       /\ IsSome(section_contents)
       /\ \/ Len(Unwrap(section_contents)) = 0
          \/ /\ selected # 0
             /\ Unwrap(section_contents)[selected].tiles_ids \in {None, Some(<<>>)}

\* C13: when a step of the pipeline of GET /movies, /tv or /UserViews
\* has failed (transport failure or timeout, undecodable body, no section
\* found, section without tiles), the response is 500 with an empty body;
\* a 200 is answered only when no step failed.
C13_AnyStepFailureIs500 ==
    pc = "done" =>
        /\ StepFailed => response = Some([status |-> 500, body |-> EmptyBody])
        /\ Unwrap(response).status = 200 => ~StepFailed

\* C15: the items of a collections request are, in order, the sections of
\* the page that carry a toplistCodename and no other: as many items as
\* such sections, each named by the codename and identified by the
\* decimal string of the sectionId.
C15_CollectionsAreTaggedSections ==
    (pc = "done" /\ kind = "collections" /\ ~ReplyFailed(1)) =>
        LET raw == Unwrap(replies[1].json)
            tagged == SelectSeq(raw, LAMBDA r : IsSome(r.toplistCodename))
            items == Unwrap(result).val
        IN /\ Unwrap(result).ok
           /\ Len(items) = Len(tagged)
           /\ \A i \in 1..Len(tagged) :
                 /\ items[i].name = Unwrap(tagged[i].toplistCodename)
                 /\ items[i].id = IF Unwrap(tagged[i].sectionId) = 1
                                  THEN <<"1">> ELSE <<"1", "2">>

\* C15 witness: a page of an untagged section and a tagged one, answered
\* with the one item of the tagged section
C15_Witness ==
    /\ pc = "done" /\ kind = "collections" /\ ~ReplyFailed(1)
    /\ Len(Unwrap(replies[1].json)) = 2
    /\ Unwrap(replies[1].json)[1].toplistCodename = None
    /\ Unwrap(replies[1].json)[1].tilesIds # None
    /\ Unwrap(replies[1].json)[2].toplistCodename # None
    /\ Unwrap(replies[1].json)[2].sectionId = Some(12)
    /\ Len(Unwrap(result).val) = 1
    /\ Unwrap(result).val[1].id = <<"1", "2">>

C19_TimeoutOnEveryCall ==
    /\ \A i \in 1..Len(calls) : calls[i].timeout = Some(TIMEOUT_SECONDS)
    /\ \A i \in 1..Len(replies) :
          replies[i] = SendFailed("timeout") =>
              /\ Len(replies) = i
              /\ pc = "done"
              /\ result = Some(Err(RequestError))
              /\ response = Some([status |-> 500, body |-> EmptyBody])

\* C19 witness: the tile-batch call of a TV request timed out after the
\* section fetch had listed a section with tiles
C19_Witness ==
    /\ kind = "tv"
    /\ Len(replies) = 2
    /\ ~ReplyFailed(1)
    /\ Len(Unwrap(ids)) > 0
    /\ replies[2] = SendFailed("timeout")
    /\ calls[2].timeout = Some(TIMEOUT_SECONDS)
    /\ response = Some([status |-> 500, body |-> EmptyBody])

\* The ids the section taken lists, as the upstream sent them
ListedIds == 
    LET refs == Unwrap(Unwrap(replies[1].json)[selected].tilesIds)
    IN [i \in 1..Len(refs) |-> Unwrap(refs[i].id)]

\* C20: the tiles of the section taken are resolved by one tile-batch
\* call whose requestedTiles are the ids the section lists, all of them,
\* in the section's order, each as often as it is listed.
C20_OneBatchOfAllIds ==
    TilesCallIssued =>
        /\ Cardinality(CallsTo("GetTiles")) = 1
        /\ LET requested == Unwrap(calls[2].body).requestedTiles
           IN /\ Len(requested) = Len(ListedIds)
              /\ \A i \in 1..Len(requested) : requested[i] = [id |-> ListedIds[i]]

\* C20 witness: a section that lists the id "2" and then the id "1"
\* twice, requested in that order and the "1" twice
C20_Witness ==
    /\ TilesCallIssued
    /\ ListedIds = <<"2", "1", "1">>
    /\ Unwrap(calls[2].body).requestedTiles = <<[id |-> "2"], [id |-> "1"], [id |-> "1"]>>

----------------------------------------------------------------------------
(* Claims on the identifiers of a Collection (SpecCollection)              *)

\* The identifiers a Collection exposes to the client
ExposedIds(coll) ==
    [Id |-> coll.id, Etag |-> coll.etag,
     Key |-> coll.user_data.key, ItemId |-> coll.user_data.item_id,
     ImageTags |-> coll.defaults.image_tags,
     BackdropImageTags |-> coll.defaults.backdrop_image_tags]

\* C16: the Collections that two requests synthesise from the same
\* upstream section (same sectionId, same toplistCodename) expose the same
\* Id, Etag, UserData.Key, UserData.ItemId and image tags: none of them
\* is drawn at random per request.
C16_IdentifiersDeterministic ==
    \A i, j \in 1..Len(synth) :
        (/\ synth[i].req # synth[j].req
         /\ synth[i].coll.id = synth[j].coll.id
         /\ synth[i].coll.name = synth[j].coll.name)
        => ExposedIds(synth[i].coll) = ExposedIds(synth[j].coll)

----------------------------------------------------------------------------
(* Claims on concurrent requests (SpecConcurrent)                          *)

\* The response of a request of kind k handled on its own, from the
\* upstream outcomes rs of its own calls and its own clock and random draws
ResponseAlone(k, rs, draws) ==
    IF k = "system_info" THEN handle_get_system_info
    ELSE IF k = "collections"
    THEN handle_get_collections(
             media_service_get_collections(get_collections(rs[1]),
                                           Unwrap(draws).now, Unwrap(draws).seed))
    ELSE LET fetched == get_section_content(rs[1])
             picked == Pick(k, fetched.val)
         IN IF ~fetched.ok THEN Handle(k, Err(fetched.err))
            ELSE IF ~picked.ok THEN Handle(k, Err(picked.err))
            ELSE Handle(k, media_service_get(get_tiles(k, picked.val.ids, rs[2])))

C21_SystemInfoFixed ==
    \A r \in Requests :
        (reqs[r].pc = "done" /\ reqs[r].kind = "system_info") =>
            /\ reqs[r].response = Some([status |-> 200, body |-> Some(SystemInfoDefault)])
            /\ reqs[r].calls = <<>>
            /\ reqs[r].replies = <<>>

\* C21 witness: the probe answered while the upstream call of another
\* request has timed out and that request has failed
C21_Witness ==
    /\ reqs[1].pc = "done" /\ reqs[1].kind = "system_info"
    /\ Unwrap(reqs[1].response).status = 200
    /\ reqs[2].pc = "done" /\ reqs[2].kind = "tv"
    /\ reqs[2].replies = <<SendFailed("timeout")>>
    /\ Unwrap(reqs[2].response).status = 500

\* The field of the session that echoes a key of the header
SessionFieldOf(session, key) ==
    IF key = KeyClient THEN session.client
    ELSE IF key = KeyDevice THEN session.device_name
    ELSE IF key = KeyDeviceId THEN session.device_id
    ELSE session.application_version

\* C22: in a 200 authentication response the session's DeviceName,
\* DeviceId, Client and ApplicationVersion are the parsed header's device,
\* deviceId, client and version: the value of the header's pair that is not
\* the first one behind the scheme word, and the empty string where the
\* header has no pair with the key; the access token is a random UUID
\* drawn for the request.
C22_SessionEchoesHeader ==
    (IsSome(authResponse) /\ Unwrap(authResponse).status = 200) =>
        LET body == Unwrap(Unwrap(authResponse).body)
            fields == from_str(emby_auth_header(supplied, header)).val
        IN /\ \A key \in RecognisedKeys :
                 /\ SessionFieldOf(body.session_info, key) = FieldOf(fields, key)
                 /\ key \notin KeysOf(hPairs) => SessionFieldOf(body.session_info, key) = <<>>
                 /\ \A i \in 1..Len(hPairs) :
                       (hPairs[i].key = key /\ (i > 1 \/ ~hScheme))
                       => SessionFieldOf(body.session_info, key) = hPairs[i].value
           /\ body.access_token \in {UuidV4(d) : d \in RandomDraws}
           /\ body.access_token \in issued

\* C22 witness: the second authentication with one header that has a
\* Device pair and no Client pair: the device echoed, the client empty,
\* and a token other than the one of the first authentication
C22_Witness ==
    /\ IsSome(authResponse) /\ Unwrap(authResponse).status = 200
    /\ KeyDevice \in KeysOf(hPairs)
    /\ KeyClient \notin KeysOf(hPairs)
    /\ Unwrap(Unwrap(authResponse).body).session_info.device_name = <<"A", "p", "p", "l", "e", "T", "V">>
    /\ Unwrap(Unwrap(authResponse).body).session_info.client = <<>>
    /\ Cardinality(issued) = 2

----------------------------------------------------------------------------
(* Claims on the order of the calls, the tile batch and the statuses (Spec) *)

\* The section fetch of the request listed no section, or the first
\* section it listed has no tile list
NothingToResolve ==
    LET raw == Unwrap(replies[1].json)
    IN raw = <<>> \/ raw[1].tilesIds = None

\* C23: a movies or TV request issues its tile-batch call only after its
\* section fetch has returned a decodable list and a section with a tile
\* list was taken from it; when the section fetch failed, listed no
\* section, or the section has no tile list, no tile-batch call is issued.
C23_TilesCallAfterSection ==
    /\ TilesCallIssued =>
          /\ kind \in {"movies", "tv"}
          /\ calls[1].endpoint = "GetSectionContent"
          /\ CallsTo("GetTiles") = {2}
          /\ Len(replies) >= 1
          /\ ~ReplyFailed(1)
          /\ selected # 0
          /\ IsSome(Unwrap(section_contents)[selected].tiles_ids)
    /\ (kind \in {"movies", "tv"} /\ Len(replies) >= 1
            /\ (ReplyFailed(1) \/ NothingToResolve))
       => /\ ~TilesCallIssued
          /\ pc = "done"

\* C23 witness: a movies request waiting for its tile-batch call, issued
\* after the section fetch listed a section with three tiles
C23_Witness ==
    /\ kind = "movies" /\ pc = "tiles_await"
    /\ Len(replies) = 1 /\ ~ReplyFailed(1)
    /\ Len(calls) = 2
    /\ calls[2].endpoint = "GetTiles"
    /\ Len(Unwrap(ids)) = 3

----------------------------------------------------------------------------
(* Claims on termination (SpecConcurrentLive)                              *)

Awaiting(r) == reqs[r].pc \in {"section_await", "tiles_await", "page_await"}

\* C24: provided every upstream call returns or times out, every request
\* that has arrived gets a response, 200 or 500; a request that has
\* arrived and has no response yet is waiting for the one upstream call it
\* has outstanding; and the response it was given is the one it keeps
\* until it is sent.
C24_EveryRequestAnswered ==
    /\ [](\A r \in Requests :
            reqs[r].pc \notin {"idle", "done"} =>
                /\ Awaiting(r)
                /\ reqs[r].response = None
                /\ Len(reqs[r].calls) = Len(reqs[r].replies) + 1)
    /\ [][\A r \in Requests :
            reqs[r].pc = "done" =>
                (reqs'[r].response = reqs[r].response \/ reqs'[r] = IdleRequest)]_vars
    /\ \A r \in Requests :
          (reqs[r].pc # "idle") ~>
              (/\ reqs[r].pc = "done"
               /\ reqs[r].response # None
               /\ Unwrap(reqs[r].response).status \in {200, 500})

\* C24 witness: a TV request answered 500 after its section fetch listed
\* a section and its tile-batch call failed to connect, while another
\* request still waits for its page
C24_Witness ==
    /\ reqs[1].pc = "done" /\ reqs[1].kind = "tv"
    /\ Len(reqs[1].replies) = 2
    /\ reqs[1].replies[2] = SendFailed("connect")
    /\ Unwrap(reqs[1].response).status = 500
    /\ reqs[2].pc = "page_await"

\* C25: the body of every 200 response to GET /UserViews has a
\* TotalRecordCount equal to the number of its Items, which is the number
\* of the page's sections that carry a toplistCodename, and StartIndex 0;
\* so too when there is no item.
C25_EnvelopeCountsItems ==
    (pc = "done" /\ kind = "collections" /\ Unwrap(response).status = 200) =>
        LET body == Unwrap(Unwrap(response).body)
            raw == Unwrap(replies[1].json)
        IN /\ body.TotalRecordCount = Len(body.Items)
           /\ body.TotalRecordCount =
                 Cardinality({i \in 1..Len(raw) : raw[i].toplistCodename # None})
           /\ body.StartIndex = 0
           /\ body.Items = <<>> => body.TotalRecordCount = 0

\* C25 witness: a 200 response with two items and a count of two
C25_Witness ==
    /\ pc = "done" /\ kind = "collections"
    /\ Unwrap(response).status = 200
    /\ Len(Unwrap(Unwrap(response).body).Items) = 2
    /\ Unwrap(Unwrap(response).body).TotalRecordCount = 2
    /\ Unwrap(Unwrap(response).body).StartIndex = 0

\* C26: whenever the body of the tile-batch response decodes, the
\* request succeeds with one object per tile of that response, whatever
\* the ids requested were: fewer tiles, more tiles, the same tile twice
\* and tiles that were not requested are all returned as they came.
C26_NoReconciliation ==
    (pc = "done" /\ Len(replies) = 2 /\ ~ReplyFailed(2)) =>
        LET returned == Unwrap(replies[2].json)
        IN /\ Unwrap(result).ok
           /\ Unwrap(response).status = 200
           /\ Len(Unwrap(result).val) = Len(returned)
           /\ \A i \in 1..Len(returned) :
                 Unwrap(result).val[i].id = Unwrap(returned[i].id)

\* C26 witness: the id "1" requested once, two tiles with the id "2"
\* returned and both handed on
C26_Witness ==
    /\ pc = "done" /\ Len(replies) = 2 /\ ~ReplyFailed(2)
    /\ ids = Some(<<"1">>)
    /\ Len(Unwrap(replies[2].json)) = 2
    /\ \A i \in 1..2 : Unwrap(replies[2].json)[i].id = Some("2")
    /\ Len(Unwrap(result).val) = 2
    /\ Unwrap(response).status = 200

----------------------------------------------------------------------------
(* Claims on the etag as a function of id and name (SpecCollection)        *)

\* C27: two Collections whose id followed by name give the same bytes
\* carry the same etag, also when their ids and names differ, as for id
\* "1" with name "23" and id "12" with name "3".
C27_EtagOfConcatenation ==
    \A i, j \in 1..Len(synth) :
        (synth[i].coll.id \o synth[i].coll.name = synth[j].coll.id \o synth[j].coll.name)
        => synth[i].coll.etag = synth[j].coll.etag

\* C27 witness: id "1" with name "23" and id "12" with name "3", one etag
C27_Witness ==
    \E i, j \in 1..Len(synth) :
        /\ synth[i].coll.id = <<"1">> /\ synth[i].coll.name = <<"2", "3">>
        /\ synth[j].coll.id = <<"1", "2">> /\ synth[j].coll.name = <<"3">>
        /\ synth[i].coll.etag = synth[j].coll.etag

\* C28: whether a request succeeds is settled by its upstream bodies
\* alone: a movies or TV request succeeds exactly when each of its calls
\* was answered with a body that decodes and the first section listed has
\* a tile list, a collections request exactly when its page decodes,
\* whatever HTTP status came with each body; a 503 with a decodable body
\* is served like a 200.
C28_StatusIsNotAFailure ==
    pc = "done" =>
        /\ Unwrap(result).ok <=>
              (/\ \A i \in 1..Len(replies) : ~ReplyFailed(i)
               /\ kind \in {"movies", "tv"} => ~NothingToResolve)
        /\ Unwrap(result).ok <=> Unwrap(response).status = 200

\* C28 witness: a movies request whose section fetch and tile batch were
\* both answered 503 with decodable bodies, served 200 with one movie
C28_Witness ==
    /\ pc = "done" /\ kind = "movies"
    /\ Len(replies) = 2
    /\ replies[1].status = 503 /\ ~ReplyFailed(1)
    /\ replies[2].status = 503 /\ ~ReplyFailed(2)
    /\ Unwrap(response).status = 200
    /\ Len(Unwrap(Unwrap(response).body)) = 1

\* C29: a collections request calls the page-content endpoint only,
\* never the section-content or the tile-batch endpoint; when its page
\* decodes it answers 200, every section with a toplistCodename is among
\* its Items whether the section's tile list is absent, empty or not, and
\* a page without such a section gives Items [] and not an error.
C29_CollectionsIgnoreTiles ==
    kind = "collections" =>
        /\ CallsTo("GetSectionContent") = {}
        /\ CallsTo("GetTiles") = {}
        /\ (pc = "done" /\ ~ReplyFailed(1)) =>
              LET raw == Unwrap(replies[1].json)
                  items == Unwrap(Unwrap(response).body).Items
              IN /\ Unwrap(response).status = 200
                 /\ \A i \in 1..Len(raw) :
                       raw[i].toplistCodename # None =>
                           \E j \in 1..Len(items) :
                               items[j].name = Unwrap(raw[i].toplistCodename)
                 /\ (\A i \in 1..Len(raw) : raw[i].toplistCodename = None)
                       => items = <<>>

\* C29 witness: a page of two tagged sections, the first without a tile
\* list and the second with an empty one, answered with two Items after
\* the one call
C29_Witness ==
    /\ pc = "done" /\ kind = "collections" /\ ~ReplyFailed(1)
    /\ Len(calls) = 1
    /\ Len(Unwrap(replies[1].json)) = 2
    /\ Unwrap(replies[1].json)[1].toplistCodename # None
    /\ Unwrap(replies[1].json)[1].tilesIds = None
    /\ Unwrap(replies[1].json)[2].toplistCodename # None
    /\ Unwrap(replies[1].json)[2].tilesIds = Some(<<>>)
    /\ Len(Unwrap(Unwrap(response).body).Items) = 2


====
